---- MODULE Spec2Model ----
(***************************************************************************)
(* The schema migration runner of SamvadQL                                 *)
(*   backend/migrations/migration_manager.py  (MigrationManager)           *)
(*   backend/migrations/cli.py                (up / down / status)         *)
(*   backend/core/db/pool.py, manager.py      (connections, transactions)  *)
(* as a state machine.  A runner is one process that executes one command  *)
(* at a time; every await of the code is a step of its own, so that a      *)
(* failure or a crash can fall between any two statements.  The migration  *)
(* files are modelled a second time as texts: create_migration_file,       *)
(* _parse_migration_file and load_migrations_from_directory on characters. *)
(* DatabaseConnectionManager is modelled on its own as well: the tasks of   *)
(* one event loop that call initialize, get_connection and close.          *)
(***************************************************************************)
EXTENDS Integers, Sequences, FiniteSets, TLC

VARIABLES
    dir,          \* the *.sql files of migrations_dir, as parsed Migration records
    dbUrl,        \* settings.database_url is configured
    tableExists,  \* schema_migrations exists in the database
    ledger,       \* committed rows of schema_migrations
    schema,       \* versions whose up_sql effect is committed and not reverted
    openTx,       \* the open database transactions
    run,          \* per runner: the position and locals of its current command
    upsSinceDown, \* history: per version, committed up_sql runs since its last committed rollback
    overRow,      \* history: an up_sql effect was committed while a row of its version existed
    clock,        \* the second datetime.utcnow() is in
    files,        \* the *.sql files of migrations_dir, as written
    created,      \* the arguments and the file of the last create_migration_file call
    loaded,       \* what the last load_migrations_from_directory returned
    parsed,       \* a call of _parse_migration_file: its argument and its result
    poolMgr       \* one DatabaseConnectionManager, the tasks that call it, and its history

dbVars == <<dir, dbUrl, tableExists, ledger, schema, openTx, run, upsSinceDown, overRow>>
fileVars == <<clock, files, created, loaded, parsed>>
vars == <<dbVars, fileVars, poolMgr>>

----------------------------------------------------------------------------
(* Bounds *)

NumVersions == 3

AllRunners == {"r1", "r2"}
Runners == {"r1"}

----------------------------------------------------------------------------
(* Strings are sequences of digits; Python compares them lexicographically *)

StrLess(a, b) ==
    \E k \in 1..Len(b) :
        /\ k <= Len(a) + 1
        /\ \A j \in 1..(k - 1) : a[j] = b[j]
        /\ (k > Len(a) \/ a[k] < b[k])

StrLeq(a, b) == a = b \/ StrLess(a, b)

\* the canonical fixed-width version string of the i-th timestamp
VersionStr(i) == <<i \div 2, i % 2>>

Versions == {VersionStr(i) : i \in 1..NumVersions}

\* Optional[str]
None == [none |-> TRUE, str |-> <<>>]
Some(s) == [none |-> FALSE, str |-> s]

\* the truth value Python gives an Optional[str]: None and "" are falsy
Truthy(t) == ~t.none /\ t.str # <<>>

\* target strings: absent, empty, every version, and strings that are no version
TargetStrings == {<<>>, <<0>>, <<1>>, <<9>>} \cup Versions
UpTargets == {None} \cup {Some(s) : s \in TargetStrings}
DownTargets == {Some(s) : s \in TargetStrings}

\* class Migration
Migration(version, name, up_sql, down_sql) ==
    [version |-> version, name |-> name, up_sql |-> up_sql, down_sql |-> down_sql]

\* the files a directory may hold: one file per version, reversible or not
MigrationUniverse ==
    {Migration(v, "M", "UP", d) : v \in Versions, d \in {"", "DOWN"}}

Directories ==
    {D \in SUBSET MigrationUniverse :
        \A m1, m2 \in D : m1.version = m2.version => m1 = m2}

\* files that have no text above the -- DOWN marker as well: _parse_migration_file
\* gives them the up_sql ""
MigrationUniverseAnyUpSql ==
    {Migration(v, "M", u, d) : v \in Versions, u \in {"", "UP"}, d \in {"", "DOWN"}}

DirectoriesAnyUpSql ==
    {D \in SUBSET MigrationUniverseAnyUpSql :
        \A m1, m2 \in D : m1.version = m2.version => m1 = m2}

RECURSIVE SortByVersion(_)
SortByVersion(S) ==
    IF S = {} THEN <<>>
    ELSE LET m == CHOOSE x \in S : \A y \in S : StrLeq(x.version, y.version)
         IN  <<m>> \o SortByVersion(S \ {m})

RECURSIVE SortStrings(_)
SortStrings(S) ==
    IF S = {} THEN <<>>
    ELSE LET v == CHOOSE x \in S : \A y \in S : StrLeq(x, y)
         IN  <<v>> \o SortStrings(S \ {v})

\* variant: the list is walked from its front
NotReversed(s) == s

Reversed(s) == [i \in 1..Len(s) |-> s[Len(s) + 1 - i]]

InList(x, s) == \E i \in 1..Len(s) : s[i] = x


----------------------------------------------------------------------------
(* The runner's locals *)

\* variant: latest_applied is taken from the front of the list
StatusLatestFirst(applied, pending) ==
    [applied_count      |-> Len(applied),
     pending_count      |-> Len(pending),
     applied_migrations |-> applied,
     pending_migrations |-> pending,
     latest_applied     |-> IF applied # <<>> THEN Some(applied[1]) ELSE None]

\* the dictionary get_migration_status returns
Status(applied, pending) ==
    [applied_count      |-> Len(applied),
     pending_count      |-> Len(pending),
     applied_migrations |-> applied,
     pending_migrations |-> pending,
     latest_applied     |-> IF applied # <<>> THEN Some(applied[Len(applied)]) ELSE None]

NoStatus ==
    [applied_count |-> -1, pending_count |-> -1, applied_migrations |-> <<>>,
     pending_migrations |-> <<>>, latest_applied |-> None]

\* what a caller can learn from a call about the migrations it handled: nothing
NoReport == [versions |-> <<>>, failed |-> None]

IdleRun ==
    [pc        |-> "idle",    \* where the command stands
     cmd       |-> "none",    \* "up", "down", "status" (cli.py) or "applied" (a direct call)
     target    |-> None,      \* target_version
     mgrSet    |-> FALSE,     \* MigrationManager._db_manager is not None
     globalMgr |-> FALSE,     \* core.db.manager._db_manager is not None
     poolOpen  |-> FALSE,     \* DatabaseConnectionManager._pool is not None
     applied   |-> <<>>,      \* applied_migrations
     listed    |-> FALSE,     \* get_applied_migrations has returned its list
     available |-> <<>>,      \* available_migrations
     todo      |-> <<>>,      \* pending_migrations / migrations_to_rollback
     idx       |-> 0,         \* position of the for loop in todo
     done      |-> <<>>,      \* versions whose transaction this command committed, in order
     log       |-> <<>>,      \* statements this command sent to the database, in order
     ledger0   |-> {},        \* the ledger rows when the command started
     failed    |-> {},        \* the steps of this command that failed
     outcome   |-> "none",    \* "running", "ok", "raised", "exit", "crashed"
     error     |-> "none",    \* the message of the exception that left the method
     exitCode  |-> -1,        \* the process exit status of a cli command
     report    |-> NoReport,  \* the versions the call handed to its caller
     status    |-> NoStatus]  \* what get_migration_status returned

Stmt(kind, version) == [stmt |-> kind, version |-> version]

Calls ==
    {[cmd |-> "up", target |-> t, inject |-> FALSE] : t \in UpTargets}
    \cup {[cmd |-> "down", target |-> t, inject |-> FALSE] : t \in DownTargets}
    \cup {[cmd |-> "status", target |-> None, inject |-> FALSE]}
    \cup {[cmd |-> "applied", target |-> None, inject |-> i] : i \in BOOLEAN}

TxOf(r) == {t \in openTx : t.r = r}

RowVersions(rows) == {row.version : row \in rows}

\* variant: the version column has no key
NoPrimaryKey(version) == FALSE

\* PRIMARY KEY (version): an INSERT of a version that has a row is refused
PrimaryKeyConflict(version) == version \in RowVersions(ledger)

\* async with connection.transaction(): leaving the block, by commit or by an
\* exception, ends the transaction
TxAfterExit(r) == openTx \ TxOf(r)

\* variant: the except branch logs the error and does not call sys.exit
ExitStatusAlwaysZero(cmd, raised) ==
    IF cmd \in {"up", "down", "status"} THEN 0 ELSE -1

\* cli.py: the except branch calls sys.exit(1), otherwise the process ends with 0
ExitStatus(cmd, raised) ==
    IF cmd \in {"up", "down", "status"} THEN (IF raised THEN 1 ELSE 0) ELSE -1

\* migrate_up and migrate_down return None, and what they raise is the
\* exception of the executor as it came: the versions are only logged
HandedOver(s, raised) == NoReport

\* the method raises: the command is over
Raise(s, step, err) ==
    [s EXCEPT !.pc = "idle", !.outcome = "raised", !.error = err,
              !.failed = @ \cup {step}, !.exitCode = ExitStatus(s.cmd, TRUE),
              !.report = HandedOver(s, TRUE)]

\* the method returns: the command is over
Return(s) ==
    [s EXCEPT !.pc = "idle", !.outcome = "ok", !.exitCode = ExitStatus(s.cmd, FALSE),
              !.report = HandedOver(s, FALSE)]

\* variant: the for loop catches the exception and goes on with the next migration
LoopFailureSkips(s, step, err) ==
    LET s1 == [s EXCEPT !.failed = @ \cup {step}]
    IN  IF s.idx < Len(s.todo)
        THEN [s1 EXCEPT !.idx = @ + 1, !.pc = IF s.cmd = "up" THEN "apply" ELSE "rollback"]
        ELSE Return(s1)

\* apply_migration / rollback_migration raised inside the for loop of migrate_up /
\* migrate_down: nothing catches it there, the exception leaves the method
LoopFailure(s, step, err) == Raise(s, step, err)

\* variant: get_database_manager builds the manager without looking at
\* settings.database_url
get_db_manager_without_url_check(s) ==
    IF s.mgrSet THEN {[ok |-> TRUE, s |-> s]}
    ELSE IF s.globalMgr THEN {[ok |-> TRUE, s |-> [s EXCEPT !.mgrSet = TRUE]]}
    ELSE {[ok |-> TRUE,  s |-> [s EXCEPT !.mgrSet = TRUE, !.globalMgr = TRUE, !.poolOpen = TRUE]],
          [ok |-> FALSE, err |-> "database error", s |-> [s EXCEPT !.globalMgr = TRUE]]}

\* MigrationManager.get_db_manager with core.db.manager.get_database_manager:
\* the possible results for a runner in state s
get_db_manager(s) ==
    IF s.mgrSet THEN {[ok |-> TRUE, s |-> s]}
    ELSE IF s.globalMgr THEN {[ok |-> TRUE, s |-> [s EXCEPT !.mgrSet = TRUE]]}
    ELSE IF ~dbUrl THEN {[ok |-> FALSE, err |-> "DATABASE_URL not configured", s |-> s]}
    ELSE {[ok |-> TRUE,  s |-> [s EXCEPT !.mgrSet = TRUE, !.globalMgr = TRUE, !.poolOpen = TRUE]],
          [ok |-> FALSE, err |-> "database error", s |-> [s EXCEPT !.globalMgr = TRUE]]}

\* DatabaseConnectionManager.get_connection: initialize() when there is no pool,
\* then pool.acquire(); either may fail
get_connection(s) ==
    {[ok |-> TRUE,  s |-> [s EXCEPT !.poolOpen = TRUE]],
     [ok |-> FALSE, s |-> [s EXCEPT !.poolOpen = TRUE]],
     [ok |-> FALSE, s |-> s]}

\* variant: the list is sorted with reverse=True
load_migrations_descending == Reversed(SortByVersion(dir))

\* load_migrations_from_directory
load_migrations_from_directory == SortByVersion(dir)

----------------------------------------------------------------------------
(* The migration files: create_migration_file writes them, _parse_migration_file *)
(* and load_migrations_from_directory read them.  A text is a sequence of      *)
(* characters; the marker -- DOWN is one token, as no other text of the code   *)
(* overlaps with it.                                                           *)

MaxClock == 1
MaxFiles == 2
MaxStemLen == 5

Marker == "-- DOWN"

\* str.isspace
Whitespace == {" ", "LF", "CR"}

LowerCase == {"a", "b"}
UpperCase == {"A", "B"}

\* str.lower / str.upper of one character
LowerChar(c) == CASE c = "A" -> "a" [] c = "B" -> "b" [] OTHER -> c
UpperChar(c) == CASE c = "a" -> "A" [] c = "b" -> "B" [] OTHER -> c

IsLetter(c) == c \in LowerCase \cup UpperCase

\* the code point of a character of a file name
Ord(c) ==
    CASE c = " " -> 32 [] c = "." -> 46
      [] c = "0" -> 48 [] c = "1" -> 49 [] c = "2" -> 50 [] c = "3" -> 51
      [] c = "A" -> 65 [] c = "B" -> 66 [] c = "_" -> 95
      [] c = "a" -> 97 [] c = "b" -> 98
      [] c = "l" -> 108 [] c = "q" -> 113 [] c = "s" -> 115

\* Python's order of two str values: by code point, a prefix first
TextLess(a, b) ==
    StrLess([i \in 1..Len(a) |-> Ord(a[i])], [i \in 1..Len(b) |-> Ord(b[i])])

TextLeq(a, b) == a = b \/ TextLess(a, b)

\* str.lower
Lower(s) == [i \in 1..Len(s) |-> LowerChar(s[i])]

\* variant: the name goes into the file name as it is
ReplaceNothing(s, old, new) == s

\* str.replace of one character by another
Replace(s, old, new) == [i \in 1..Len(s) |-> IF s[i] = old THEN new ELSE s[i]]

\* str.title: a letter that follows a letter is lowered, any other letter is
\* raised
Title(s) ==
    [i \in 1..Len(s) |->
        IF ~IsLetter(s[i]) THEN s[i]
        ELSE IF i > 1 /\ IsLetter(s[i - 1]) THEN LowerChar(s[i]) ELSE UpperChar(s[i])]

\* str.strip
Strip(s) ==
    LET keep == {i \in 1..Len(s) : s[i] \notin Whitespace}
    IN  IF keep = {} THEN <<>>
        ELSE SubSeq(s, CHOOSE i \in keep : \A j \in keep : i <= j,
                       CHOOSE i \in keep : \A j \in keep : j <= i)

\* the place of the first sep in s
Find(s, sep) == CHOOSE i \in 1..Len(s) : s[i] = sep /\ \A j \in 1..(i - 1) : s[j] # sep

\* variant: str.split(sep) without maxsplit
RECURSIVE SplitAll(_, _, _)
SplitAll(s, sep, maxsplit) ==
    IF ~InList(sep, s) THEN <<s>>
    ELSE <<SubSeq(s, 1, Find(s, sep) - 1)>>
            \o SplitAll(SubSeq(s, Find(s, sep) + 1, Len(s)), sep, maxsplit)

\* str.split(sep, maxsplit): at most maxsplit cuts, from the left
RECURSIVE Split(_, _, _)
Split(s, sep, maxsplit) ==
    IF maxsplit = 0 \/ ~InList(sep, s) THEN <<s>>
    ELSE <<SubSeq(s, 1, Find(s, sep) - 1)>>
            \o Split(SubSeq(s, Find(s, sep) + 1, Len(s)), sep, maxsplit - 1)

\* Path.read_text: universal newlines, \r\n and \r are read as \n
RECURSIVE ReadText(_)
ReadText(content) ==
    IF content = <<>> THEN <<>>
    ELSE IF content[1] = "CR"
    THEN <<"LF">> \o ReadText(IF Len(content) > 1 /\ content[2] = "LF"
                              THEN SubSeq(content, 3, Len(content))
                              ELSE Tail(content))
    ELSE <<content[1]>> \o ReadText(Tail(content))

\* datetime.utcnow().strftime("%Y%m%d_%H%M%S") in the second `now`
DigitChars == <<"0", "1", "2", "3">>
strftime(now) == <<"1", "_", DigitChars[now + 1]>>

\* a *.sql file of migrations_dir; origin tells who wrote it
File(stem, content, readable, origin) ==
    [stem |-> stem, content |-> content, readable |-> readable, origin |-> origin]

\* file_path.name
FileName(f) == f.stem \o <<".", "s", "q", "l">>

NoMigration == Migration(<<>>, <<>>, <<>>, <<>>)

\* _parse_migration_file: what it returns or that it raised, and whether it
\* read the file
parse_migration_file(f) ==
    LET parts == Split(f.stem, "_", 2)
    IN  IF Len(parts) < 3
        THEN [kind |-> "None", migration |-> NoMigration, read |-> FALSE]
        ELSE IF ~f.readable
        THEN [kind |-> "raised", migration |-> NoMigration, read |-> TRUE]
        ELSE LET version == parts[1] \o <<"_">> \o parts[2]
                 name == Title(Replace(parts[3], "_", " "))
                 content == ReadText(f.content)
                 cut == InList(Marker, content)
                 up_sql == IF cut THEN SubSeq(content, 1, Find(content, Marker) - 1)
                           ELSE content
                 down_sql == IF cut
                             THEN SubSeq(content, Find(content, Marker) + 1, Len(content))
                             ELSE <<>>
             IN  [kind |-> "Migration",
                  migration |-> Migration(version, name, Strip(up_sql), Strip(down_sql)),
                  read |-> TRUE]

\* the orders in which glob may hand out the files
GlobOrders ==
    {order \in [1..Cardinality(files) -> files] :
        \A i, j \in 1..Cardinality(files) : i # j => order[i] # order[j]}

\* variant: the paths are taken as glob hands them out
UnsortedGlob(order) == order

\* sorted(self.migrations_dir.glob("*.sql"))
RECURSIVE SortedGlob(_)
SortedGlob(order) ==
    IF order = <<>> THEN <<>>
    ELSE LET k == CHOOSE i \in 1..Len(order) :
                      \A j \in 1..Len(order) : TextLeq(FileName(order[i]), FileName(order[j]))
         IN  <<order[k]>> \o SortedGlob(SubSeq(order, 1, k - 1) \o SubSeq(order, k + 1, Len(order)))

\* sorted(migrations, key=lambda m: m.version): stable, equal versions keep
\* their order
RECURSIVE SortedByVersion(_)
SortedByVersion(migrations) ==
    IF migrations = <<>> THEN <<>>
    ELSE LET x == migrations[Len(migrations)]
             before == SortedByVersion(SubSeq(migrations, 1, Len(migrations) - 1))
             k == Cardinality({i \in 1..Len(before) : TextLeq(before[i].version, x.version)})
         IN  SubSeq(before, 1, k) \o <<x>> \o SubSeq(before, k + 1, Len(before))

\* load_migrations_from_directory over the files as glob handed them out
LoadFrom(order) ==
    LET paths == SortedGlob(order)
        results == [i \in 1..Len(paths) |-> parse_migration_file(paths[i])]
        kept == SelectSeq(results, LAMBDA p : p.kind = "Migration")
    IN  SortedByVersion([i \in 1..Len(kept) |-> kept[i].migration])

\* the inputs of create_migration_file
Names == {<<"a">>, <<"A">>, <<"a", " ", "b">>}

\* SQL texts: empty, blank, plain, with white space around, with the marker
\* inside, with a carriage return inside
SqlTexts ==
    {<<>>, <<" ">>, <<"x">>, <<" ", "x", "LF">>, <<"x", Marker>>, <<"x", "CR", "x">>}

\* the texts of the files of a directory with several files
DirectoryTexts == {<<>>, <<"x">>}

\* files that come from elsewhere: a name without version, one with two
\* segments, one that cannot be read, and one well formed
ForeignFiles ==
    {File(<<"a">>, <<"x">>, TRUE, "foreign"),
     File(<<"1", "_", "0">>, <<"x">>, TRUE, "foreign"),
     File(<<"1", "_", "0", "_", "b">>, <<"x">>, FALSE, "foreign"),
     File(<<"0", "_", "1", "_", "b">>, <<"x", Marker, "x">>, TRUE, "foreign")}

NoCreate == [name |-> <<>>, stem |-> <<>>, now |-> -1, up_sql |-> <<>>, down_sql |-> <<>>]
NotLoaded == [done |-> FALSE, list |-> <<>>]
NotParsed == [file |-> File(<<>>, <<>>, TRUE, "none"), called |-> FALSE,
              kind |-> "none", migration |-> NoMigration, read |-> FALSE]

\* no file, no call
FilesIdle ==
    /\ clock = 0
    /\ files = {}
    /\ created = NoCreate
    /\ loaded = NotLoaded
    /\ parsed = NotParsed

----------------------------------------------------------------------------
(* DatabaseConnectionManager (pool.py): the pool is made on first use, under *)
(* an asyncio.Lock.  A task runs from one await to the next in one step.      *)

MaxPools == 2
MaxFailures == 1

Tasks == {"t1", "t2"}

IdleTask == [call |-> "none", pc |-> "idle", uses |-> 0, outcome |-> "none"]

\* DatabaseConnectionManager.__init__
NewPoolManager ==
    [pool   |-> 0,          \* self._pool: 0 is None, n > 0 is the n-th pool create_pool returned
     lock   |-> "free",     \* self._lock: free, or the task that holds it
     task   |-> [t \in Tasks |-> IdleTask],
     lastId |-> 0,          \* history: the pools create_pool has returned
     calls  |-> 0,          \* history: calls of create_pool since the last step of a close()
     made   |-> 0,          \* history: pools create_pool returned since then
     fails  |-> 0,          \* history: calls of create_pool that raised since then
     used   |-> {}]         \* history: the pools get_connection went on with since then

\* a step of a close() call: what is counted from the last close starts anew
SinceClose(m) == [m EXCEPT !.calls = 0, !.made = 0, !.fails = 0, !.used = {}]

Waiters(m) == {t \in Tasks : m.task[t].pc = "wait_lock"}

\* the call of task t returns or raises
TaskEnds(m, t, outcome) ==
    [m EXCEPT !.task[t].pc = "idle", !.task[t].outcome = outcome]

\* get_connection, lines 57-60: self._pool is set, self._pool.acquire() is called
PoolAcquire(m, t) ==
    [m EXCEPT !.task[t].pc = "acquire", !.task[t].uses = m.pool,
              !.used = @ \cup {m.pool}]

\* initialize() has returned to its caller
AfterInitialize(m, t) ==
    IF m.task[t].call = "initialize" THEN TaskEnds(m, t, "ok") ELSE PoolAcquire(m, t)

\* variant: initialize() calls create_pool whether or not there is a pool
WithLockUnchecked(m, t) ==
    IF m.task[t].call = "close"
    THEN IF m.pool # 0
         THEN [m EXCEPT !.lock = t, !.task[t].pc = "pool_close"]
         ELSE TaskEnds([m EXCEPT !.lock = "free"], t, "ok")
    ELSE [m EXCEPT !.lock = t, !.task[t].pc = "create_pool", !.calls = @ + 1]

\* task t has the lock: the body of `async with self._lock` up to its await
WithLock(m, t) ==
    IF m.task[t].call = "close"
    THEN IF m.pool # 0
         THEN [m EXCEPT !.lock = t, !.task[t].pc = "pool_close"]
         ELSE TaskEnds([m EXCEPT !.lock = "free"], t, "ok")
    ELSE IF m.pool = 0
         THEN [m EXCEPT !.lock = t, !.task[t].pc = "create_pool", !.calls = @ + 1]
         ELSE AfterInitialize([m EXCEPT !.lock = "free"], t)

\* `async with self._lock`: a free lock nobody waits for is taken at once,
\* otherwise the task waits
EnterLock(m, t) ==
    IF m.lock = "free" /\ Waiters(m) = {}
    THEN WithLock(m, t)
    ELSE [m EXCEPT !.task[t].pc = "wait_lock"]

StartCall(m, t, call) ==
    [m EXCEPT !.task[t] = [IdleTask EXCEPT !.call = call, !.outcome = "running"]]

----------------------------------------------------------------------------
InitFrom(directories) ==
    /\ poolMgr = NewPoolManager
    /\ dir \in directories
    /\ dbUrl \in BOOLEAN
    /\ tableExists = FALSE
    /\ ledger = {}
    /\ schema = {}
    /\ openTx = {}
    /\ run = [r \in AllRunners |-> IdleRun]
    /\ upsSinceDown = [v \in Versions |-> 0]
    /\ overRow = FALSE

Init == InitFrom(Directories) /\ FilesIdle

dbUnchanged == UNCHANGED <<tableExists, ledger, schema, openTx, upsSinceDown, overRow>>

\* a command is started: cli.py main, or a direct call of get_applied_migrations
start(r) ==
    /\ run[r].pc = "idle"
    /\ \E c \in Calls :
        run' = [run EXCEPT ![r] =
                    [IdleRun EXCEPT !.pc = IF c.cmd = "applied" THEN "get_applied" ELSE "cli",
                                    !.cmd = c.cmd, !.target = c.target,
                                    !.mgrSet = c.inject,
                                    !.ledger0 = ledger, !.outcome = "running"]]
    /\ UNCHANGED <<poolMgr, fileVars, dir, dbUrl>>
    /\ dbUnchanged

\* cli.py migrate_up / migrate_down / migration_status: the database_url check
cli_check(r) ==
    /\ run[r].pc = "cli"
    /\ run' = [run EXCEPT ![r] =
                  IF ~dbUrl
                  THEN [@ EXCEPT !.pc = "idle", !.outcome = "exit", !.exitCode = 1,
                                 !.failed = @ \cup {"config"}]
                  ELSE [@ EXCEPT !.pc = "init_table"]]
    /\ UNCHANGED <<poolMgr, fileVars, dir, dbUrl>>
    /\ dbUnchanged

\* variant: CREATE TABLE without IF NOT EXISTS is refused when the table is there
CreateTable(exists) == [refused |-> exists, exists |-> TRUE]

\* CREATE TABLE IF NOT EXISTS schema_migrations ...; CREATE INDEX IF NOT EXISTS ...:
\* never refused because of what exists; afterwards the table exists
CreateTableIfNotExists(exists) == [refused |-> FALSE, exists |-> TRUE]

\* variant: the except branch logs the error and does not raise it again
initialize_migration_table_swallowing(r) ==
    /\ run[r].pc = "init_table"
    /\ \E g \in get_db_manager(run[r]) :
        IF ~g.ok
        THEN /\ run' = [run EXCEPT ![r] = Raise(g.s, "init", g.err)]
             /\ UNCHANGED tableExists
        ELSE \E c \in get_connection(g.s), executed \in BOOLEAN :
                IF c.ok /\ executed
                THEN /\ tableExists' = TRUE
                     /\ run' = [run EXCEPT ![r] = [c.s EXCEPT !.pc = "get_applied"]]
                ELSE /\ run' = [run EXCEPT ![r] =
                                   [c.s EXCEPT !.pc = "get_applied", !.failed = @ \cup {"init"}]]
                     /\ UNCHANGED tableExists
    /\ UNCHANGED <<poolMgr, fileVars, dir, dbUrl, ledger, schema, openTx, upsSinceDown, overRow>>

\* initialize_migration_table: the failure "init" is one of the connection or
\* the server, "init_exists" is the statement refused because the table exists
initialize_migration_table(r) ==
    /\ run[r].pc = "init_table"
    /\ \E g \in get_db_manager(run[r]) :
        IF ~g.ok
        THEN /\ run' = [run EXCEPT ![r] = Raise(g.s, "init", g.err)]
             /\ UNCHANGED tableExists
        ELSE \E c \in get_connection(g.s), executed \in BOOLEAN :
                LET ddl == CreateTableIfNotExists(tableExists)
                IN  IF c.ok /\ executed /\ ~ddl.refused
                    THEN /\ tableExists' = ddl.exists
                         /\ run' = [run EXCEPT ![r] = [c.s EXCEPT !.pc = "get_applied"]]
                    ELSE /\ run' = [run EXCEPT ![r] =
                                       Raise(c.s, IF c.ok /\ executed THEN "init_exists" ELSE "init",
                                             "database error")]
                         /\ UNCHANGED tableExists
    /\ UNCHANGED <<poolMgr, fileVars, dir, dbUrl, ledger, schema, openTx, upsSinceDown, overRow>>

\* variant: ORDER BY version DESC
SelectVersionsDescending == Reversed(SortStrings(RowVersions(ledger)))

\* the rows the SELECT ... ORDER BY version returns
SelectVersions == SortStrings(RowVersions(ledger))

\* get_applied_migrations: get_db_manager is outside the try block; inside it,
\* every failure is answered with the empty list
get_applied_migrations(r) ==
    /\ run[r].pc = "get_applied"
    /\ \E g \in get_db_manager(run[r]) :
        IF ~g.ok
        THEN run' = [run EXCEPT ![r] = Raise(g.s, "read_manager", g.err)]
        ELSE \E c \in get_connection(g.s), fetched \in BOOLEAN :
                LET readOk == c.ok /\ fetched /\ tableExists
                    rows == IF readOk THEN SelectVersions ELSE <<>>
                    s1 == [c.s EXCEPT !.applied = rows, !.listed = TRUE,
                                      !.failed = IF readOk THEN @ ELSE @ \cup {"read"}]
                IN  run' = [run EXCEPT ![r] =
                               IF s1.cmd = "applied" THEN Return(s1)
                               ELSE [s1 EXCEPT !.pc = "load"]]
    /\ UNCHANGED <<poolMgr, fileVars, dir, dbUrl>>
    /\ dbUnchanged


----------------------------------------------------------------------------
(* migrate_up, migrate_down, get_migration_status after the ledger was read:   *)
(* the code between two awaits runs in one step                                *)

\* migrate_up: pending_migrations
PendingMigrations(available, applied, target) ==
    LET pending == SelectSeq(available, LAMBDA m : ~InList(m.version, applied))
    IN  IF Truthy(target)
        THEN SelectSeq(pending, LAMBDA m : StrLeq(m.version, target.str))
        ELSE pending

\* variant: the comparison with the target is >=
MigrationsToRollbackInclusive(available, applied, target) ==
    SelectSeq(Reversed(available),
              LAMBDA m : InList(m.version, applied) /\ StrLeq(target.str, m.version))

\* migrate_down: migrations_to_rollback
MigrationsToRollback(available, applied, target) ==
    SelectSeq(Reversed(available),
              LAMBDA m : InList(m.version, applied) /\ StrLess(target.str, m.version))

migrate_up(r) ==
    /\ run[r].pc = "load"
    /\ run[r].cmd = "up"
    /\ LET available == load_migrations_from_directory
           pending == PendingMigrations(available, run[r].applied, run[r].target)
           s1 == [run[r] EXCEPT !.available = available]
       IN  run' = [run EXCEPT ![r] =
                      IF pending = <<>> THEN Return(s1)
                      ELSE [s1 EXCEPT !.todo = pending, !.idx = 1, !.pc = "apply"]]
    /\ UNCHANGED <<poolMgr, fileVars, dir, dbUrl>>
    /\ dbUnchanged

migrate_down(r) ==
    /\ run[r].pc = "load"
    /\ run[r].cmd = "down"
    /\ LET available == load_migrations_from_directory
           back == MigrationsToRollback(available, run[r].applied, run[r].target)
           s1 == [run[r] EXCEPT !.available = available]
       IN  run' = [run EXCEPT ![r] =
                      IF back = <<>> THEN Return(s1)
                      ELSE [s1 EXCEPT !.todo = back, !.idx = 1, !.pc = "rollback"]]
    /\ UNCHANGED <<poolMgr, fileVars, dir, dbUrl>>
    /\ dbUnchanged

get_migration_status(r) ==
    /\ run[r].pc = "load"
    /\ run[r].cmd = "status"
    /\ LET available == load_migrations_from_directory
           pending == SelectSeq(available, LAMBDA m : ~InList(m.version, run[r].applied))
           versions == [i \in 1..Len(pending) |-> pending[i].version]
       IN  run' = [run EXCEPT ![r] =
                      Return([@ EXCEPT !.available = available,
                                       !.status = Status(run[r].applied, versions)])]
    /\ UNCHANGED <<poolMgr, fileVars, dir, dbUrl>>
    /\ dbUnchanged


----------------------------------------------------------------------------
(* Transactions: get_transaction opens one on a pooled connection; what is     *)
(* executed inside becomes visible at commit, all of it or none of it          *)

Tx(r, m, kind) ==
    [r |-> r, version |-> m.version, name |-> m.name, kind |-> kind,
     sql |-> FALSE, row |-> FALSE]

\* the row apply_migration inserts
Row(version, name) == [version |-> version, name |-> name]

Current(r) == run[r].todo[run[r].idx]

CurrentTx(r) == CHOOSE t \in TxOf(r) : t.version = Current(r).version

Database == [schema |-> schema, ledger |-> ledger]

\* the committed state once transaction t has committed
AfterCommit(t) ==
    IF t.kind = "up"
    THEN [schema |-> IF t.sql THEN schema \cup {t.version} ELSE schema,
          ledger |-> IF t.row THEN ledger \cup {Row(t.version, t.name)} ELSE ledger]
    ELSE [schema |-> IF t.sql THEN schema \ {t.version} ELSE schema,
          ledger |-> IF t.row THEN {x \in ledger : x.version # t.version} ELSE ledger]

\* variant: the statements ran on a plain connection, so what was executed stays
AfterRollbackAutocommit(t) == AfterCommit(t)

\* the committed state once transaction t was rolled back: nothing of it remains
AfterRollback(t) == Database

\* history of the committed up_sql and down_sql runs
HistoryAfterCommit(t) ==
    IF ~t.sql THEN upsSinceDown
    ELSE IF t.kind = "up"
    THEN [upsSinceDown EXCEPT ![t.version] = IF @ < 2 THEN @ + 1 ELSE @]
    ELSE [upsSinceDown EXCEPT ![t.version] = 0]

Append1(s, field, x) == [s EXCEPT ![field] = Append(@, x)]

\* the transaction of runner r is left by an exception: rollback, and the
\* exception leaves apply_migration / rollback_migration
Abort(r, step) ==
    LET db == AfterRollback(CurrentTx(r))
    IN  /\ schema' = db.schema
        /\ ledger' = db.ledger
        /\ openTx' = TxAfterExit(r)
        /\ run' = [run EXCEPT ![r] =
                      LoopFailure([@ EXCEPT !.log = Append(@, Stmt(step, Current(r).version))],
                                  step, "database error")]
        /\ UNCHANGED <<upsSinceDown, overRow>>

\* a statement of the transaction of runner r succeeded
Executed(r, step, field, next) ==
    /\ openTx' = (openTx \ {CurrentTx(r)}) \cup {[CurrentTx(r) EXCEPT ![field] = TRUE]}
    /\ run' = [run EXCEPT ![r] =
                  [@ EXCEPT !.log = Append(@, Stmt(step, Current(r).version)),
                            !.pc = next]]
    /\ UNCHANGED <<schema, ledger, upsSinceDown, overRow>>

\* the transaction of runner r commits, and the for loop goes on or ends
Committed(r, again) ==
    LET t == CurrentTx(r)
        db == AfterCommit(t)
    IN  /\ schema' = db.schema
        /\ ledger' = db.ledger
        /\ upsSinceDown' = HistoryAfterCommit(t)
        /\ overRow' = (overRow \/ (t.kind = "up" /\ t.sql /\ t.version \in RowVersions(ledger)))
        /\ openTx' = TxAfterExit(r)
        /\ run' = [run EXCEPT ![r] =
                      LET s1 == [@ EXCEPT !.done = Append(@, t.version),
                                          !.log = Append(@, Stmt("commit", t.version))]
                      IN  IF s1.idx < Len(s1.todo)
                          THEN [s1 EXCEPT !.idx = @ + 1, !.pc = again]
                          ELSE Return(s1)]

\* get_transaction: a connection is acquired and BEGIN is sent
Begin(r, kind, next) ==
    \E g \in get_db_manager(run[r]) :
        IF ~g.ok
        THEN /\ run' = [run EXCEPT ![r] = LoopFailure(g.s, "manager", g.err)]
             /\ UNCHANGED openTx
        ELSE \E c \in get_connection(g.s), begun \in BOOLEAN :
                IF c.ok /\ begun
                THEN /\ openTx' = openTx \cup {Tx(r, Current(r), kind)}
                     /\ run' = [run EXCEPT ![r] =
                                   [c.s EXCEPT !.pc = next,
                                               !.log = Append(@, Stmt("begin", Current(r).version))]]
                ELSE /\ run' = [run EXCEPT ![r] = LoopFailure(c.s, "begin", "database error")]
                     /\ UNCHANGED openTx

----------------------------------------------------------------------------
(* apply_migration *)

\* variant: the row is recorded first, up_sql is not run before it
apply_migration_begin_insert_first(r) ==
    /\ run[r].pc = "apply"
    /\ Begin(r, "up", "insert")
    /\ UNCHANGED <<poolMgr, fileVars, dir, dbUrl, tableExists, ledger, schema, upsSinceDown, overRow>>

apply_migration_begin(r) ==
    /\ run[r].pc = "apply"
    /\ Begin(r, "up", "up_sql")
    /\ UNCHANGED <<poolMgr, fileVars, dir, dbUrl, tableExists, ledger, schema, upsSinceDown, overRow>>

apply_migration_up_sql(r) ==
    /\ run[r].pc = "up_sql"
    /\ \/ Executed(r, "up_sql", "sql", "insert")
       \/ Abort(r, "up_sql")
    /\ UNCHANGED <<poolMgr, fileVars, dir, dbUrl, tableExists>>

\* variant: an INSERT does not wait for the uncommitted row of another transaction
InsertNeverWaits(r) == FALSE

\* the INSERT of a version of which another open transaction holds an
\* uncommitted row waits for the end of that transaction
InsertWaits(r) ==
    \E t \in openTx \ TxOf(r) :
        t.kind = "up" /\ t.row /\ t.version = Current(r).version

\* the INSERT succeeds, or it fails: refused by the primary key, or for a reason
\* of the connection, or at command_timeout while it waits
apply_migration_insert(r) ==
    /\ run[r].pc = "insert"
    /\ \/ /\ ~PrimaryKeyConflict(Current(r).version)
          /\ ~InsertWaits(r)
          /\ Executed(r, "insert", "row", "commit_up")
       \/ Abort(r, "insert")
    /\ UNCHANGED <<poolMgr, fileVars, dir, dbUrl, tableExists>>

apply_migration_commit(r) ==
    /\ run[r].pc = "commit_up"
    /\ \/ Committed(r, "apply")
       \/ Abort(r, "commit")
    /\ UNCHANGED <<poolMgr, fileVars, dir, dbUrl, tableExists>>

----------------------------------------------------------------------------
(* rollback_migration *)

\* variant: rollback_migration without the down_sql check
rollback_migration_begin_unchecked(r) ==
    /\ run[r].pc = "rollback"
    /\ Begin(r, "down", "down_sql")
    /\ UNCHANGED <<poolMgr, fileVars, dir, dbUrl, tableExists, ledger, schema, upsSinceDown, overRow>>

rollback_migration_begin(r) ==
    /\ run[r].pc = "rollback"
    /\ IF Current(r).down_sql = ""
       THEN /\ run' = [run EXCEPT ![r] = LoopFailure(@, "no_down_sql", "has no rollback SQL")]
            /\ UNCHANGED openTx
       ELSE Begin(r, "down", "down_sql")
    /\ UNCHANGED <<poolMgr, fileVars, dir, dbUrl, tableExists, ledger, schema, upsSinceDown, overRow>>

rollback_migration_down_sql(r) ==
    /\ run[r].pc = "down_sql"
    /\ \/ Executed(r, "down_sql", "sql", "delete")
       \/ Abort(r, "down_sql")
    /\ UNCHANGED <<poolMgr, fileVars, dir, dbUrl, tableExists>>

rollback_migration_delete(r) ==
    /\ run[r].pc = "delete"
    /\ \/ Executed(r, "delete", "row", "commit_down")
       \/ Abort(r, "delete")
    /\ UNCHANGED <<poolMgr, fileVars, dir, dbUrl, tableExists>>

rollback_migration_commit(r) ==
    /\ run[r].pc = "commit_down"
    /\ \/ Committed(r, "rollback")
       \/ Abort(r, "commit")
    /\ UNCHANGED <<poolMgr, fileVars, dir, dbUrl, tableExists>>

----------------------------------------------------------------------------
\* the process dies in the middle of a command; the server rolls back what the
\* lost connection had not committed
crash(r) ==
    /\ run[r].pc # "idle"
    /\ LET db == IF TxOf(r) = {} THEN Database ELSE AfterRollback(CurrentTx(r))
       IN  /\ schema' = db.schema
           /\ ledger' = db.ledger
    /\ openTx' = openTx \ TxOf(r)
    /\ run' = [run EXCEPT ![r] =
                  [@ EXCEPT !.pc = "idle", !.outcome = "crashed", !.exitCode = 137,
                            !.failed = @ \cup {"crash"}]]
    /\ UNCHANGED <<poolMgr, fileVars, dir, dbUrl, tableExists, upsSinceDown, overRow>>

\* between two commands the directory changes: a migration file is written
\* (create_migration_file, a checkout) ...; the locals of the last command
\* are gone by then
add_migration_file(r) ==
    /\ run[r].pc = "idle"
    /\ \E m \in MigrationUniverse :
          /\ \A x \in dir : x.version # m.version
          /\ dir' = dir \cup {m}
    /\ run' = [run EXCEPT ![r] = IdleRun]
    /\ UNCHANGED <<poolMgr, fileVars, dbUrl>>
    /\ dbUnchanged

\* ... or a file is taken away
remove_migration_file(r) ==
    /\ run[r].pc = "idle"
    /\ \E m \in dir : dir' = dir \ {m}
    /\ run' = [run EXCEPT ![r] = IdleRun]
    /\ UNCHANGED <<poolMgr, fileVars, dbUrl>>
    /\ dbUnchanged

\* the steps of the commands
CommandStep(r) ==
    \/ start(r)
    \/ cli_check(r)
    \/ initialize_migration_table(r)
    \/ get_applied_migrations(r)
    \/ migrate_up(r)
    \/ migrate_down(r)
    \/ get_migration_status(r)
    \/ apply_migration_begin(r)
    \/ apply_migration_up_sql(r)
    \/ apply_migration_insert(r)
    \/ apply_migration_commit(r)
    \/ rollback_migration_begin(r)
    \/ rollback_migration_down_sql(r)
    \/ rollback_migration_delete(r)
    \/ rollback_migration_commit(r)
    \/ crash(r)

Step(r) ==
    \/ CommandStep(r)
    \/ add_migration_file(r)
    \/ remove_migration_file(r)

Next == \E r \in Runners : Step(r)

Spec == Init /\ [][Next]_vars

\* the commands over a directory that does not change, whose files may have
\* an empty up_sql
NextFixedDirectory == \E r \in Runners : CommandStep(r)

InitAnyUpSql == InitFrom(DirectoriesAnyUpSql) /\ FilesIdle

SpecAnyUpSql == InitAnyUpSql /\ [][NextFixedDirectory]_vars

----------------------------------------------------------------------------
(* The migration files alone *)

\* no database in use, no file, no call
FileInit ==
    /\ InitFrom({{}})
    /\ dbUrl = FALSE
    /\ FilesIdle

\* a second passes
tick ==
    /\ clock < MaxClock
    /\ clock' = clock + 1
    /\ UNCHANGED <<poolMgr, dbVars, files, created, loaded, parsed>>

\* create_migration_file(name, up_sql, down_sql) with texts of the given set:
\* write_text replaces a file of the same name
create_migration_file(texts) ==
    \E name \in Names, up_sql \in texts, down_sql \in texts :
        LET stem == strftime(clock) \o <<"_">> \o Replace(Lower(name), " ", "_")
            content == IF down_sql # <<>>
                       THEN up_sql \o <<"LF", "LF", Marker, "LF">> \o down_sql
                       ELSE up_sql
            others == {f \in files : f.stem # stem}
        IN  /\ Cardinality(others) < MaxFiles
            /\ files' = others \cup {File(stem, content, TRUE, "create")}
            /\ created' = [name |-> name, stem |-> stem, now |-> clock,
                           up_sql |-> up_sql, down_sql |-> down_sql]
            /\ loaded' = NotLoaded
            /\ UNCHANGED <<poolMgr, dbVars, clock, parsed>>

\* a file that create_migration_file did not write appears in the directory
put_file ==
    /\ Cardinality(files) < MaxFiles
    /\ \E f \in ForeignFiles :
          /\ \A g \in files : g.stem # f.stem
          /\ files' = files \cup {f}
    /\ loaded' = NotLoaded
    /\ UNCHANGED <<poolMgr, dbVars, clock, created, parsed>>

\* load_migrations_from_directory()
load_directory ==
    /\ \E order \in GlobOrders : loaded' = [done |-> TRUE, list |-> LoadFrom(order)]
    /\ UNCHANGED <<poolMgr, dbVars, clock, files, created, parsed>>

NextFiles ==
    \/ tick
    \/ create_migration_file(DirectoryTexts)
    \/ put_file
    \/ load_directory

FileSpec == FileInit /\ [][NextFiles]_vars

\* create_migration_file in an empty directory, then the loader: the way of
\* one file from its texts to its Migration
create_first_file ==
    /\ files = {}
    /\ create_migration_file(SqlTexts)

NextRoundTrip ==
    \/ create_first_file
    \/ load_directory

RoundTripSpec == FileInit /\ [][NextRoundTrip]_vars

\* the commands over one file that was there before, and beside them
\* create_migration_file (cli.py create, a process of its own), at any moment
\* of a command; the files it writes are not loaded by these commands
CreateInit ==
    /\ InitFrom({{Migration(VersionStr(1), "M", "UP", "DOWN")}})
    /\ dbUrl = TRUE
    /\ FilesIdle

NextCreate ==
    \/ \E r \in Runners : CommandStep(r)
    \/ create_migration_file(DirectoryTexts)

CreateSpec == CreateInit /\ [][NextCreate]_vars

\* the commands over files whose name part changes between two commands: the
\* version of a file is the first two segments of its name, the rest is the
\* name that apply_migration writes into the row
FileNames == {"M", "N"}

RenamedUniverse ==
    {Migration(VersionStr(i), n, "UP", d) : i \in 1..2, n \in FileNames, d \in {"", "DOWN"}}

RenamedInit ==
    /\ InitFrom({D \in SUBSET RenamedUniverse :
                    \A m1, m2 \in D : m1.version = m2.version => m1 = m2})
    /\ dbUrl = TRUE
    /\ FilesIdle

\* a file is renamed and keeps its version
rename_migration_file(r) ==
    /\ run[r].pc = "idle"
    /\ \E m \in dir, n \in FileNames :
          /\ n # m.name
          /\ dir' = (dir \ {m}) \cup {[m EXCEPT !.name = n]}
    /\ run' = [run EXCEPT ![r] = IdleRun]
    /\ UNCHANGED <<poolMgr, fileVars, dbUrl>>
    /\ dbUnchanged

NextRenamed == \E r \in Runners : CommandStep(r) \/ rename_migration_file(r)

RenamedSpec == RenamedInit /\ [][NextRenamed]_vars

\* the commands over a directory that does not change
FixedDirectorySpec == Init /\ [][NextFixedDirectory]_vars

\* migrate_up calls only, with files added to the directory between them
start_migrate_up(r) ==
    /\ start(r)
    /\ run'[r].cmd = "up"

MigrateUpStep(r) ==
    \/ start_migrate_up(r)
    \/ cli_check(r)
    \/ initialize_migration_table(r)
    \/ get_applied_migrations(r)
    \/ migrate_up(r)
    \/ apply_migration_begin(r)
    \/ apply_migration_up_sql(r)
    \/ apply_migration_insert(r)
    \/ apply_migration_commit(r)
    \/ crash(r)

NextAddedFiles == \E r \in Runners : MigrateUpStep(r) \/ add_migration_file(r)

AddedFilesSpec == Init /\ [][NextAddedFiles]_vars

\* two orchestrators run migrate_up against one database at the same time,
\* each a process with a manager and a pool of its own
ConcurrentInit ==
    /\ InitFrom({{Migration(v, "M", "UP", "DOWN") : v \in Versions}})
    /\ dbUrl = TRUE
    /\ FilesIdle

\* cli.py up without --target
start_migrate_up_all(r) ==
    /\ start(r)
    /\ run'[r].cmd = "up"
    /\ run'[r].target = None

ConcurrentStep(r) ==
    \/ start_migrate_up_all(r)
    \/ cli_check(r)
    \/ initialize_migration_table(r)
    \/ get_applied_migrations(r)
    \/ migrate_up(r)
    \/ apply_migration_begin(r)
    \/ apply_migration_up_sql(r)
    \/ apply_migration_insert(r)
    \/ apply_migration_commit(r)
    \/ crash(r)

NextConcurrent == \E r \in AllRunners : ConcurrentStep(r)

ConcurrentSpec == ConcurrentInit /\ [][NextConcurrent]_vars

\* _parse_migration_file as a function of the file it is given
StemChars == {"1", "_", "a", "B"}

RECURSIVE Texts(_, _)
Texts(chars, n) ==
    IF n = 0 THEN {<<>>}
    ELSE Texts(chars, n - 1)
            \cup {Append(t, c) : t \in {u \in Texts(chars, n - 1) : Len(u) = n - 1}, c \in chars}

ParseInputs ==
    {File(stem, content, readable, "foreign") :
        stem \in Texts(StemChars, MaxStemLen),
        content \in {<<"x">>, <<" ", "x", Marker, "x", "LF">>},
        readable \in BOOLEAN}

ParseInit ==
    /\ InitFrom({{}})
    /\ dbUrl = FALSE
    /\ clock = 0
    /\ files = {}
    /\ created = NoCreate
    /\ loaded = NotLoaded
    /\ parsed \in {[NotParsed EXCEPT !.file = f] : f \in ParseInputs}

\* one call of _parse_migration_file(file_path)
parse_call ==
    /\ ~parsed.called
    /\ LET p == parse_migration_file(parsed.file)
       IN  parsed' = [parsed EXCEPT !.called = TRUE, !.kind = p.kind,
                                    !.migration = p.migration, !.read = p.read]
    /\ UNCHANGED <<poolMgr, dbVars, clock, files, created, loaded>>

NextParse == parse_call

ParseSpec == ParseInit /\ [][NextParse]_vars


----------------------------------------------------------------------------
(* The connection manager alone: tasks of one event loop call initialize(),   *)
(* get_connection() and close() on one DatabaseConnectionManager              *)

PoolInit ==
    /\ InitFrom({{}})
    /\ dbUrl = FALSE
    /\ FilesIdle

\* await manager.initialize()
call_initialize(t) ==
    /\ poolMgr.task[t].pc = "idle"
    /\ poolMgr' = EnterLock(StartCall(poolMgr, t, "initialize"), t)
    /\ UNCHANGED <<dbVars, fileVars>>

\* async with manager.get_connection(): initialize() only when there is no pool
call_get_connection(t) ==
    /\ poolMgr.task[t].pc = "idle"
    /\ poolMgr' = LET m == StartCall(poolMgr, t, "get_connection")
                  IN  IF m.pool = 0 THEN EnterLock(m, t) ELSE PoolAcquire(m, t)
    /\ UNCHANGED <<dbVars, fileVars>>

\* await manager.close()
call_close(t) ==
    /\ poolMgr.task[t].pc = "idle"
    /\ poolMgr' = EnterLock(SinceClose(StartCall(poolMgr, t, "close")), t)
    /\ UNCHANGED <<dbVars, fileVars>>

\* the lock was released and the waiting task gets it
lock_acquired(t) ==
    /\ poolMgr.task[t].pc = "wait_lock"
    /\ poolMgr.lock = "free"
    /\ poolMgr' = WithLock(poolMgr, t)
    /\ UNCHANGED <<dbVars, fileVars>>

\* await asyncpg.create_pool(...) returns a pool
create_pool_returns(t) ==
    /\ poolMgr.task[t].pc = "create_pool"
    /\ poolMgr.lastId < MaxPools
    /\ poolMgr' = AfterInitialize([poolMgr EXCEPT !.pool = poolMgr.lastId + 1,
                                                  !.lastId = @ + 1,
                                                  !.made = @ + 1,
                                                  !.lock = "free"], t)
    /\ UNCHANGED <<dbVars, fileVars>>

\* await asyncpg.create_pool(...) raises: logged and raised again, out of
\* initialize() and out of get_connection()
create_pool_raises(t) ==
    /\ poolMgr.task[t].pc = "create_pool"
    /\ poolMgr.fails < MaxFailures
    /\ poolMgr' = TaskEnds([poolMgr EXCEPT !.fails = @ + 1, !.lock = "free"], t, "raised")
    /\ UNCHANGED <<dbVars, fileVars>>

\* self._pool.acquire() hands out a connection of a pool that is open
acquire_returns(t) ==
    /\ poolMgr.task[t].pc = "acquire"
    /\ poolMgr.task[t].uses = poolMgr.pool
    /\ \A u \in Tasks : poolMgr.task[u].pc # "pool_close"
    /\ poolMgr' = [poolMgr EXCEPT !.task[t].pc = "connected"]
    /\ UNCHANGED <<dbVars, fileVars>>

\* self._pool.acquire() raises: the pool is closing or closed, or the server fails
acquire_raises(t) ==
    /\ poolMgr.task[t].pc = "acquire"
    /\ poolMgr' = TaskEnds(poolMgr, t, "raised")
    /\ UNCHANGED <<dbVars, fileVars>>

\* the body of `async with manager.get_connection()` ends
release_connection(t) ==
    /\ poolMgr.task[t].pc = "connected"
    /\ poolMgr' = TaskEnds(poolMgr, t, "ok")
    /\ UNCHANGED <<dbVars, fileVars>>

\* await self._pool.close() returns, once every connection is back; then
\* self._pool = None
pool_close_returns(t) ==
    /\ poolMgr.task[t].pc = "pool_close"
    /\ \A u \in Tasks : poolMgr.task[u].pc # "connected"
    /\ poolMgr' = TaskEnds(SinceClose([poolMgr EXCEPT !.pool = 0, !.lock = "free"]), t, "ok")
    /\ UNCHANGED <<dbVars, fileVars>>

\* await self._pool.close() raises: the assignment of None is not reached
pool_close_raises(t) ==
    /\ poolMgr.task[t].pc = "pool_close"
    /\ poolMgr' = TaskEnds(SinceClose([poolMgr EXCEPT !.lock = "free"]), t, "raised")
    /\ UNCHANGED <<dbVars, fileVars>>

PoolStep(t) ==
    \/ call_initialize(t)
    \/ call_get_connection(t)
    \/ call_close(t)
    \/ lock_acquired(t)
    \/ create_pool_returns(t)
    \/ create_pool_raises(t)
    \/ acquire_returns(t)
    \/ acquire_raises(t)
    \/ release_connection(t)
    \/ pool_close_returns(t)
    \/ pool_close_raises(t)

NextPool == \E t \in Tasks : PoolStep(t)

PoolSpec == PoolInit /\ [][NextPool]_vars

----------------------------------------------------------------------------
(* Properties *)

Ended(r, cmd) == run[r].pc = "idle" /\ run[r].cmd = cmd

\* the versions of the first n entries of the command's work list
FirstVersions(r, n) == {run[r].todo[i].version : i \in 1..n}

LoggedVersions(r) == {run[r].log[i].version : i \in 1..Len(run[r].log)}

\* C1: a migration's schema effect is committed if and only if its row is in
\* schema_migrations, in every state, whatever statement fails and wherever
\* the process dies: a migration is never half-applied.
C1_NeverHalfApplied ==
    \A v \in Versions : (v \in schema) <=> (v \in RowVersions(ledger))

\* a command committed one migration, executed the up_sql of the next one and
\* then failed at its ledger INSERT or died before its commit
C1_Witness ==
    \E r \in Runners :
        /\ Ended(r, "up")
        /\ run[r].done # <<>>
        /\ run[r].failed \cap {"insert", "crash"} # {}
        /\ \E i \in 1..Len(run[r].log) :
              /\ run[r].log[i].stmt = "up_sql"
              /\ run[r].log[i].version \notin RowVersions(ledger)

\* C2: within one migrate_up the migrations are applied in strictly ascending
\* version order, every transaction holds one migration, and a transaction is
\* committed or rolled back before the next one is opened: a runner never has
\* two transactions open.
C2_OneTransactionAtATimeAscending ==
    \A r \in Runners :
        run[r].cmd = "up" =>
            /\ Cardinality(TxOf(r)) <= 1
            /\ run[r].pc = "apply" => TxOf(r) = {}
            /\ \A t \in TxOf(r) : t.version = Current(r).version
            /\ \A i, j \in 1..Len(run[r].done) :
                  i < j => StrLess(run[r].done[i], run[r].done[j])
            /\ \A i, j \in 1..Len(run[r].log) :
                  i < j => StrLeq(run[r].log[i].version, run[r].log[j].version)

\* two migrations are committed and the transaction of a third one is open
C2_Witness ==
    \E r \in Runners :
        /\ run[r].cmd = "up"
        /\ Len(run[r].done) = 2
        /\ run[r].pc = "insert"
        /\ TxOf(r) # {}


\* the versions of the first n entries of the work list, in order
FirstInOrder(r, n) == [i \in 1..n |-> run[r].todo[i].version]

\* what C3 says of a migrate_up that failed at the up_sql or the INSERT of its
\* k-th pending migration, but for the row of the k-th
FailureStop(r) ==
    LET k == run[r].idx
    IN  /\ run[r].outcome = "raised"
        /\ run[r].exitCode # 0
        /\ run[r].done = FirstInOrder(r, k - 1)
        /\ RowVersions(ledger) = RowVersions(run[r].ledger0) \cup FirstVersions(r, k - 1)
        /\ \A j \in (k + 1)..Len(run[r].todo) :
              run[r].todo[j].version \notin LoggedVersions(r)

UpFailedAtStatement(r) ==
    /\ Ended(r, "up")
    /\ run[r].failed \cap {"up_sql", "insert"} # {}

\* a status whose ledger read succeeded reports the rows of the ledger
StatusReportsLedger(r) ==
    (Ended(r, "status") /\ run[r].outcome = "ok" /\ "read" \notin run[r].failed)
        => run[r].status.applied_migrations = SelectVersions

\* C3 as claimed: when the k-th pending migration of a migrate_up fails at its
\* up_sql or its INSERT, the call raises, exactly the first k-1 are recorded by
\* it, no statement of a later one is executed, and the k-th is not recorded.
C3_FailureStop_AsClaimed ==
    \A r \in Runners :
        /\ UpFailedAtStatement(r) =>
              /\ FailureStop(r)
              /\ Current(r).version \notin RowVersions(ledger)
        /\ StatusReportsLedger(r)

\* C3, amended: as above, but the k-th gets no row from this call: its row is
\* there afterwards exactly when it was there before the call (the ledger read
\* failed open and the INSERT met the primary key).
C3_FailureStop ==
    \A r \in Runners :
        /\ UpFailedAtStatement(r) =>
              /\ FailureStop(r)
              /\ (Current(r).version \in RowVersions(ledger))
                    <=> (Current(r).version \in RowVersions(run[r].ledger0))
        /\ StatusReportsLedger(r)

\* the second of three pending migrations failed after the first was committed
C3_Witness ==
    \E r \in Runners :
        /\ UpFailedAtStatement(r)
        /\ run[r].idx = 2
        /\ Len(run[r].todo) = 3
        /\ Cardinality(ledger) = 1

\* C4: at most once: no up_sql is committed while a row of its version exists,
\* and between two commits of the up_sql of one version a rollback of that
\* version is committed, also when the ledger read fails open.
C4_AtMostApplyOnce ==
    /\ ~overRow
    /\ \A v \in Versions : upsSinceDown[v] <= 1

\* the ledger read failed open although rows exist, the up_sql of a recorded
\* version was executed again and its INSERT was refused
C4_Witness ==
    \E r \in Runners :
        /\ Ended(r, "up")
        /\ "read" \in run[r].failed
        /\ "insert" \in run[r].failed
        /\ Current(r).version \in RowVersions(run[r].ledger0)
        /\ upsSinceDown[Current(r).version] = 1


\* the versions of available_migrations
AvailableVersions(r) == {run[r].available[i].version : i \in 1..Len(run[r].available)}

DoneVersions(r) == {run[r].done[i] : i \in 1..Len(run[r].done)}

\* the versions C5 lets a migrate_up with target t apply: available, not in the
\* applied list, and not above t when t is a string
Allowed(r, bounded) ==
    {v \in AvailableVersions(r) : /\ ~InList(v, run[r].applied)
                                  /\ bounded => StrLeq(v, run[r].target.str)}

TargetBound(r, bounded) ==
    /\ DoneVersions(r) \subseteq Allowed(r, bounded)
    /\ (Ended(r, "up") /\ run[r].outcome = "ok") =>
          /\ DoneVersions(r) = Allowed(r, bounded)
          /\ \A v \in AvailableVersions(r) :
                (bounded => StrLeq(v, run[r].target.str)) => v \in RowVersions(ledger)

\* C5 as claimed: for every target string t, migrate_up applies exactly the
\* available migrations that are not in the applied list and have version <= t,
\* none with version > t, and after a successful call every available
\* migration with version <= t is applied; with no target, all pending ones.
C5_TargetBound_AsClaimed ==
    \A r \in Runners :
        run[r].cmd = "up" => TargetBound(r, ~run[r].target.none)

\* what the code does: the bound is applied to the targets Python takes as
\* true, and the empty string is treated like no target
C5_TargetBound_NonEmptyTarget ==
    \A r \in Runners :
        run[r].cmd = "up" => TargetBound(r, Truthy(run[r].target))

C7_RollbackFailureStop ==
    \A r \in Runners :
        (Ended(r, "down") /\ run[r].failed \cap {"down_sql", "delete"} # {}) =>
            LET k == run[r].idx
            IN  /\ run[r].outcome = "raised"
                /\ run[r].exitCode # 0
                /\ Current(r).version \in RowVersions(ledger)
                /\ Current(r).version \in schema
                /\ run[r].done = FirstInOrder(r, k - 1)
                /\ RowVersions(ledger) = RowVersions(run[r].ledger0) \ FirstVersions(r, k - 1)
                /\ schema \cap FirstVersions(r, k - 1) = {}
                /\ \A j \in (k + 1)..Len(run[r].todo) :
                      /\ run[r].todo[j].version \notin LoggedVersions(r)
                      /\ run[r].todo[j].version \in RowVersions(ledger) \cap schema

\* the second of three rollbacks executed its down_sql and failed at the DELETE
C7_Witness ==
    \E r \in Runners :
        /\ Ended(r, "down")
        /\ "delete" \in run[r].failed
        /\ run[r].idx = 2
        /\ Len(run[r].todo) = 3

\* C8: rolling back a migration with empty down_sql fails with the 'no
\* rollback SQL' error before a transaction is opened or a statement is sent;
\* its row stays, and the run stops there: it is not skipped and no lower
\* version is rolled back.
C8_NoRollbackSql ==
    \A r \in Runners :
        run[r].cmd = "down" =>
            /\ \A i \in 1..Len(run[r].todo) :
                  run[r].todo[i].down_sql = "" =>
                      /\ run[r].todo[i].version \notin LoggedVersions(r)
                      /\ \A t \in TxOf(r) : t.version # run[r].todo[i].version
                      /\ run[r].todo[i].version \in RowVersions(ledger)
                      /\ run[r].idx <= i
            /\ (run[r].idx > 0 /\ Current(r).down_sql = "" /\ run[r].pc # "rollback") =>
                  /\ Ended(r, "down")
                  /\ run[r].outcome \in {"raised", "crashed"}
                  /\ run[r].outcome = "raised" => "no_down_sql" \in run[r].failed
            /\ (Ended(r, "down") /\ "no_down_sql" \in run[r].failed) =>
                  /\ run[r].outcome = "raised"
                  /\ run[r].exitCode # 0
                  /\ run[r].error = "has no rollback SQL"
                  /\ Current(r).down_sql = ""
                  /\ \A j \in run[r].idx..Len(run[r].todo) :
                        /\ run[r].todo[j].version \notin LoggedVersions(r)
                        /\ run[r].todo[j].version \in RowVersions(ledger)
            /\ run[r].error = "has no rollback SQL" => "no_down_sql" \in run[r].failed

\* a migrate_down rolled back one migration, then met one without down_sql,
\* with a lower one still to go
C8_Witness ==
    \E r \in Runners :
        /\ Ended(r, "down")
        /\ "no_down_sql" \in run[r].failed
        /\ run[r].idx = 2
        /\ Len(run[r].todo) = 3


CliCommands == {"up", "down", "status"}

\* C9 as claimed: every error in an up, down or status command (table
\* creation, ledger read, up_sql / down_sql, ledger insert / delete) aborts the
\* command and the process exits non-zero; no command ends with status 0
\* after one of its steps failed.
C9_ErrorsAbort_AsClaimed ==
    \A r \in Runners :
        (run[r].cmd \in CliCommands /\ run[r].pc = "idle" /\ run[r].failed # {}) =>
            (run[r].exitCode # 0 /\ run[r].outcome # "ok")

\* C9, amended: the same for every error but a failed ledger read, which
\* get_applied_migrations answers with the empty list and the command goes on.
C9_ErrorsAbort ==
    \A r \in Runners :
        run[r].cmd \in CliCommands =>
            /\ run[r].failed \ {"read"} # {} => run[r].pc = "idle"
            /\ (run[r].pc = "idle" /\ run[r].failed \ {"read"} # {}) =>
                  (run[r].exitCode # 0 /\ run[r].outcome # "ok")
            /\ (run[r].pc = "idle" /\ run[r].exitCode = 0) => run[r].outcome = "ok"

\* a down command ended because a DELETE failed
C9_Witness ==
    \E r \in Runners :
        /\ Ended(r, "down")
        /\ "delete" \in run[r].failed
        /\ run[r].exitCode = 1

\* what get_applied_migrations returns: the empty list when the connection or
\* the SELECT failed, otherwise every version of the ledger, ascending
ReturnsLedgerOrNothing(r) ==
    (run[r].listed /\ run[r].done = <<>>) =>
        /\ "read" \in run[r].failed => run[r].applied = <<>>
        /\ "read" \notin run[r].failed =>
              /\ {run[r].applied[i] : i \in 1..Len(run[r].applied)} = RowVersions(ledger)
              /\ Len(run[r].applied) = Cardinality(ledger)
              /\ \A i, j \in 1..Len(run[r].applied) :
                    i < j => StrLess(run[r].applied[i], run[r].applied[j])

\* C10 as claimed: get_applied_migrations never raises; it returns the empty
\* list when the connection or the SELECT fails and otherwise every version
\* of schema_migrations in ascending order.
C10_NeverRaises_AsClaimed ==
    \A r \in Runners :
        /\ "read_manager" \notin run[r].failed
        /\ ReturnsLedgerOrNothing(r)

\* C10, amended: get_applied_migrations raises only when get_db_manager fails,
\* which needs a manager that was neither injected nor obtained before; with
\* a manager at hand it never raises and returns as claimed.
C10_RaisesOnlyWithoutManager ==
    \A r \in Runners :
        /\ "read_manager" \in run[r].failed =>
              /\ Ended(r, "applied")
              /\ run[r].outcome = "raised"
              /\ ~run[r].mgrSet
              /\ ~run[r].listed
        /\ (Ended(r, "applied") /\ run[r].outcome = "raised") =>
              "read_manager" \in run[r].failed
        /\ ReturnsLedgerOrNothing(r)

\* a direct call returned two versions
C10_Witness ==
    \E r \in Runners :
        /\ Ended(r, "applied")
        /\ run[r].outcome = "ok"
        /\ "read" \notin run[r].failed
        /\ Len(run[r].applied) = 2

----------------------------------------------------------------------------
(* get_migration_status *)

StrictlyAscending(s) == \A i, j \in 1..Len(s) : i < j => StrLess(s[i], s[j])

Elements(s) == {s[i] : i \in 1..Len(s)}

\* get_migration_status returned its dictionary
StatusReturned(r) == Ended(r, "status") /\ run[r].outcome = "ok"

\* the dictionary C11 describes, for the ledger and the directory as they are
StatusOfLedger(st) ==
    LET rows == RowVersions(ledger)
        available == {m.version : m \in dir}
    IN  /\ Elements(st.applied_migrations) = rows
        /\ StrictlyAscending(st.applied_migrations)
        /\ st.applied_count = Cardinality(rows)
        /\ Elements(st.pending_migrations) = available \ rows
        /\ StrictlyAscending(st.pending_migrations)
        /\ st.pending_count = Cardinality(available \ rows)
        /\ st.latest_applied =
              (IF rows = {} THEN None
               ELSE Some(CHOOSE v \in rows : \A w \in rows : StrLeq(w, v)))
        /\ Elements(st.applied_migrations) \cap Elements(st.pending_migrations) = {}
        /\ (dir = {} /\ ledger = {}) =>
              (st.applied_count = 0 /\ st.pending_count = 0 /\ st.latest_applied = None)

\* C11 as claimed: whenever get_migration_status returns, applied_migrations
\* are the ledger versions ascending, applied_count their number,
\* pending_migrations the available versions absent from the ledger ascending,
\* pending_count their number, latest_applied the greatest ledger version or
\* None; the lists are disjoint; empty directory and ledger give 0, 0, None.
C11_Status_AsClaimed ==
    \A r \in Runners : StatusReturned(r) => StatusOfLedger(run[r].status)

\* C11, amended: the same whenever the ledger read of the call succeeded; when
\* it failed, get_applied_migrations answered with the empty list, so the
\* dictionary is the one of an empty ledger: no applied version, every
\* available version pending, latest_applied None.
C11_Status ==
    \A r \in Runners :
        StatusReturned(r) =>
            LET st == run[r].status
            IN  IF "read" \notin run[r].failed
                THEN StatusOfLedger(st)
                ELSE /\ st.applied_migrations = <<>>
                     /\ st.applied_count = 0
                     /\ st.latest_applied = None
                     /\ Elements(st.pending_migrations) = {m.version : m \in dir}
                     /\ StrictlyAscending(st.pending_migrations)
                     /\ st.pending_count = Cardinality(dir)

\* a status read two ledger rows and found one more file pending
C11_Witness ==
    \E r \in Runners :
        /\ StatusReturned(r)
        /\ "read" \notin run[r].failed
        /\ run[r].status.applied_count = 2
        /\ run[r].status.pending_count = 1

\* runner r is inside a get_migration_status call: its next step is one of the call
InStatus(r) == run[r].cmd = "status" /\ run[r].pc \notin {"idle", "cli"}

\* C12 as claimed: get_migration_status is a pure read: no step of the call,
\* from whatever state it is made, changes the existence of schema_migrations,
\* its rows, the migrated schema or the migration directory.
C12_PureRead_AsClaimed ==
    [][\A r \in Runners :
          InStatus(r) => /\ tableExists' = tableExists
                         /\ ledger' = ledger
                         /\ schema' = schema
                         /\ dir' = dir]_vars

\* what the code does: the call leaves rows, schema and directory alone, but
\* its first step is initialize_migration_table, which creates the table
C12_StatusWritesNoRow ==
    [][\A r \in Runners :
          InStatus(r) => /\ tableExists => tableExists'
                         /\ ledger' = ledger
                         /\ schema' = schema
                         /\ dir' = dir]_vars

----------------------------------------------------------------------------
(* initialize_migration_table *)

\* C13: initialize_migration_table is idempotent: it is never refused because
\* the table exists; a call that returns leaves the table existing and nothing
\* else of the database changed, whether the table existed before or not, so
\* that a second call leaves what the first one left; and no step of it adds,
\* removes or changes a ledger row.
C13_InitializeIdempotent ==
    [][\A r \in Runners :
          run[r].pc = "init_table" =>
              /\ ledger' = ledger
              /\ schema' = schema
              /\ dir' = dir
              /\ tableExists => tableExists'
              /\ run'[r].pc = "get_applied" => tableExists'
              /\ "init_exists" \notin run'[r].failed]_vars

\* a command passed initialize_migration_table on a database whose ledger
\* already had two rows
C13_Witness ==
    \E r \in Runners :
        /\ run[r].cmd \in CliCommands
        /\ run[r].pc = "get_applied"
        /\ Cardinality(run[r].ledger0) = 2
        /\ ledger = run[r].ledger0
        /\ tableExists

----------------------------------------------------------------------------
(* migrate_up with nothing to do *)

\* no file of the directory, within the bound when bounded, lacks a row in the
\* ledger the call of runner r started with
NothingMissing(r, bounded) ==
    \A m \in dir :
        (bounded => StrLeq(m.version, run[r].target.str))
            => m.version \in RowVersions(run[r].ledger0)

\* the call of runner r did nothing to the database and, once the ledger was
\* read, returned
NoOp(r) ==
    /\ run[r].log = <<>>
    /\ TxOf(r) = {}
    /\ ledger = run[r].ledger0
    /\ run[r].done = <<>>
    /\ run[r].pc \in {"idle", "cli", "init_table", "get_applied", "load"}
    /\ (run[r].pc = "idle" /\ run[r].listed /\ run[r].outcome # "crashed") =>
          (run[r].outcome = "ok" /\ run[r].exitCode = 0)

\* C14 as claimed: when no available migration within the target bound is
\* missing from the ledger, migrate_up opens no transaction, executes no
\* up_sql, leaves the ledger unchanged and returns successfully; so a second
\* migrate_up right after a successful one applies nothing.
C14_NoOp_AsClaimed ==
    \A r \in Runners :
        (run[r].cmd = "up" /\ NothingMissing(r, ~run[r].target.none)) => NoOp(r)

\* what the code does: the same for the targets Python takes as true and for
\* no target, as long as the ledger read of the call succeeds
C14_NoOp_ReadOkNonEmptyTarget ==
    \A r \in Runners :
        (/\ run[r].cmd = "up"
         /\ "read" \notin run[r].failed
         /\ NothingMissing(r, Truthy(run[r].target))) => NoOp(r)

----------------------------------------------------------------------------
(* The migration files *)

\* every file of the directory was written by create_migration_file
OnlyCreatedFiles == \A f \in files : f.origin = "create"

\* C15 as claimed: a version identifies a migration: after any sequence of
\* create_migration_file calls, the list load_migrations_from_directory
\* returns never holds two migrations with the same version.
C15_VersionsUnique_AsClaimed ==
    (loaded.done /\ OnlyCreatedFiles) =>
        \A i, j \in 1..Len(loaded.list) :
            i # j => loaded.list[i].version # loaded.list[j].version

\* the file of the last create_migration_file call and what the loader makes of it
CreatedFile == CHOOSE f \in files : f.stem = created.stem
CreatedMigration == parse_migration_file(CreatedFile).migration

\* the loader returned the migration of the created file, with the texts given
\* to create_migration_file, stripped
RoundTrip ==
    /\ parse_migration_file(CreatedFile).kind = "Migration"
    /\ InList(CreatedMigration, loaded.list)
    /\ CreatedMigration.version = strftime(created.now)
    /\ CreatedMigration.up_sql = Strip(created.up_sql)
    /\ CreatedMigration.down_sql = Strip(created.down_sql)

\* C16 as claimed: for every name, up text and down text,
\* create_migration_file(name, up, down) followed by loading the directory
\* yields a migration with up_sql = up.strip() and down_sql = down.strip(),
\* also when up or down contain the text -- DOWN and when down is empty.
C16_RoundTrip_AsClaimed ==
    (loaded.done /\ created # NoCreate) => RoundTrip

\* what the code does: the round trip holds when up does not contain the
\* marker and neither text has a carriage return inside
C16_RoundTrip_PlainTexts ==
    (/\ loaded.done
     /\ created # NoCreate
     /\ ~InList(Marker, created.up_sql)
     /\ ~InList("CR", Strip(created.up_sql))
     /\ ~InList("CR", Strip(created.down_sql))) => RoundTrip

\* the places of the underscores of a stem
Underscores(stem) == {i \in 1..Len(stem) : stem[i] = "_"}

\* the place of the second underscore of a stem that has two
SecondUnderscore(stem) ==
    CHOOSE j \in Underscores(stem) : Cardinality({i \in Underscores(stem) : i < j}) = 1

\* name is rest with every underscore turned into a space and title-cased
IsTitleOf(name, rest) ==
    /\ Len(name) = Len(rest)
    /\ \A k \in 1..Len(rest) :
          name[k] = (IF rest[k] = "_" THEN " "
                     ELSE IF ~IsLetter(rest[k]) THEN rest[k]
                     ELSE IF k > 1 /\ IsLetter(rest[k - 1]) THEN LowerChar(rest[k])
                     ELSE UpperChar(rest[k]))

\* C17: for a stem with at least three underscore-separated segments the
\* result of _parse_migration_file has as version the first two segments
\* joined by an underscore and as name the rest, underscores turned into
\* spaces, title-cased; for a stem with fewer segments it returns None, does
\* not raise and does not read the file.
C17_ParseName ==
    parsed.called =>
        LET stem == parsed.file.stem
        IN  IF Cardinality(Underscores(stem)) >= 2
            THEN /\ parsed.kind \in {"Migration", "raised"}
                 /\ parsed.kind = "Migration" <=> parsed.file.readable
                 /\ parsed.kind = "Migration" =>
                       /\ parsed.migration.version = SubSeq(stem, 1, SecondUnderscore(stem) - 1)
                       /\ Cardinality(Underscores(parsed.migration.version)) = 1
                       /\ IsTitleOf(parsed.migration.name,
                                    SubSeq(stem, SecondUnderscore(stem) + 1, Len(stem)))
            ELSE /\ parsed.kind = "None"
                 /\ ~parsed.read

\* a stem of four segments was parsed: the name has two words
C17_Witness ==
    /\ parsed.called
    /\ parsed.kind = "Migration"
    /\ parsed.migration.name = <<"A", " ", "B">>

\* a file parses: its name has three segments and it can be read
Parses(f) == Cardinality(Underscores(f.stem)) >= 2 /\ f.readable

\* how often x occurs in the list s
Count(x, s) == Cardinality({i \in 1..Len(s) : s[i] = x})

\* C18: load_migrations_from_directory returns one migration for every *.sql
\* file that parses, and nothing else, in ascending order of the version
\* strings; files with a malformed name or that cannot be read are left out
\* without a loss for the others; and the list is the same for whatever order
\* the directory hands out its files.
C18_LoadDirectory ==
    loaded.done =>
        /\ Len(loaded.list) = Cardinality({f \in files : Parses(f)})
        /\ \A f \in {g \in files : Parses(g)} :
              LET m == parse_migration_file(f).migration
              IN  Count(m, loaded.list) =
                     Cardinality({g \in files : Parses(g) /\ parse_migration_file(g).migration = m})
        /\ \A i, j \in 1..Len(loaded.list) :
              i < j => TextLeq(loaded.list[i].version, loaded.list[j].version)
        /\ \A order \in GlobOrders : LoadFrom(order) = loaded.list

\* two files of one second were loaded, in the order of their names
C18_Witness ==
    /\ loaded.done
    /\ Len(loaded.list) = 2
    /\ loaded.list[1].version = loaded.list[2].version
    /\ loaded.list[1].name # loaded.list[2].name

\* a file without version in its name was left out, the other one was loaded
C18_WitnessSkipped ==
    /\ loaded.done
    /\ Len(loaded.list) = 1
    /\ \E f \in files : ~Parses(f)

----------------------------------------------------------------------------
(* apply_migration and an empty up_sql *)

\* C19 as claimed: a non-empty up_sql is enforced at apply time: applying a
\* migration whose up_sql is empty fails (its execution never gets as far as
\* the ledger INSERT), and the ledger never holds a row of a migration whose
\* up_sql is empty.
C19_EmptyUpSqlRefused_AsClaimed ==
    /\ \A r \in Runners :
          (run[r].cmd = "up" /\ run[r].idx > 0 /\ Current(r).up_sql = "") =>
              /\ run[r].pc \notin {"insert", "commit_up"}
              /\ Current(r).version \notin Elements(run[r].done)
    /\ \A m \in dir : m.up_sql = "" => m.version \notin RowVersions(ledger)


----------------------------------------------------------------------------
(* what migrate_up hands to its caller *)

\* C20 as claimed: migrate_up reports to its caller the versions of the
\* migrations it applied, and their count, also when it stops at a failure:
\* after a failure at the k-th pending migration the caller is given the k-1
\* versions that succeeded and the version that failed.
C20_ReportsApplied_AsClaimed ==
    \A r \in Runners :
        (Ended(r, "up") /\ run[r].outcome \in {"ok", "raised"}) =>
            /\ run[r].report.versions = run[r].done
            /\ Len(run[r].report.versions) = Len(run[r].done)
            /\ (run[r].outcome = "raised" /\ run[r].idx > 0) =>
                  run[r].report.failed = Some(Current(r).version)

----------------------------------------------------------------------------
(* no database URL *)

\* runner r has not touched the database or the directory in its command
NothingAttempted(r) ==
    /\ run[r].log = <<>>
    /\ ~run[r].listed
    /\ "read" \notin run[r].failed
    /\ run[r].available = <<>>
    /\ run[r].pc \notin {"load", "apply", "rollback"}
    /\ ~run[r].poolOpen
    /\ ~tableExists
    /\ ledger = run[r].ledger0

\* C21: when settings.database_url is not configured and no database manager
\* was injected, up, down and status end with exit status 1 at the check of
\* cli.py, and a direct call raises "DATABASE_URL not configured" from
\* get_database_manager: in both cases before a connection is asked for, a
\* statement is sent, the ledger is read or the directory is loaded.
C21_NoUrlFailsFirst ==
    \A r \in Runners :
        (~dbUrl /\ run[r].cmd \in CliCommands \cup {"applied"} /\ ~run[r].mgrSet) =>
            /\ NothingAttempted(r)
            /\ run[r].cmd \in CliCommands => run[r].pc \in {"cli", "idle"}
            /\ run[r].pc = "idle" =>
                  \/ run[r].outcome = "crashed"
                  \/ /\ run[r].cmd \in CliCommands
                     /\ run[r].outcome = "exit"
                     /\ run[r].exitCode = 1
                     /\ run[r].failed = {"config"}
                  \/ /\ run[r].cmd = "applied"
                     /\ run[r].outcome = "raised"
                     /\ run[r].error = "DATABASE_URL not configured"

C21_Witness ==
    /\ ~dbUrl
    /\ dir # {}
    /\ \E r \in Runners :
        /\ Ended(r, "up")
        /\ run[r].outcome = "exit"
        /\ run[r].exitCode = 1

----------------------------------------------------------------------------
(* a failure of initialize_migration_table *)

InitFailed(r) == run[r].failed \cap {"init", "init_exists"} # {}

\* C22: a failure of initialize_migration_table is fatal and propagated: the
\* command that called it raises the error of the failure (exit status 1 of
\* the cli), and in that call the ledger was not read, the directory was not
\* loaded, no transaction was begun, no up_sql or down_sql was run and no
\* ledger row was written.
C22_InitFailureFatal ==
    \A r \in Runners :
        InitFailed(r) =>
            /\ run[r].cmd \in CliCommands
            /\ run[r].pc = "idle"
            /\ run[r].outcome = "raised"
            /\ run[r].error \in {"database error", "DATABASE_URL not configured"}
            /\ run[r].exitCode = 1
            /\ ~run[r].listed
            /\ "read" \notin run[r].failed
            /\ run[r].available = <<>>
            /\ run[r].todo = <<>>
            /\ run[r].log = <<>>
            /\ run[r].done = <<>>
            /\ ledger = run[r].ledger0
            /\ TxOf(r) = {}

\* the table creation fails in an up command with files to apply, in a down
\* command with rows to roll back, and in a status command
C22_Witness ==
    \E r \in Runners :
        /\ InitFailed(r)
        /\ Ended(r, "down")
        /\ ledger # {}
        /\ \E m \in dir : m.version \in RowVersions(ledger) /\ m.down_sql # ""
        /\ run[r].target = Some(<<>>)

----------------------------------------------------------------------------
(* create_migration_file and the database *)

\* the file name without .sql that the claim gives for a name in second now
ClaimedStem(name, now) ==
    strftime(now) \o <<"_">>
        \o [i \in 1..Len(name) |-> IF name[i] = " " THEN "_" ELSE LowerChar(name[i])]

\* C23: create_migration_file acquires no database connection and leaves the
\* ledger, the table, the migrated schema, the open transactions and every
\* running command as they are; all it does is write one file named
\* {version}_{name lowered, spaces as underscores}.sql into the directory,
\* every other file staying as it was, and return the path of that file.
C23_CreateWritesOneFile ==
    [][(created' # created \/ files' # files) =>
          /\ UNCHANGED dbVars
          /\ created'.stem = ClaimedStem(created'.name, clock)
          /\ \E f \in files' :
                /\ f.stem = created'.stem
                /\ f.origin = "create"
                /\ files' \ {f} = {g \in files : g.stem # f.stem}]_vars

\* a file was created beside a ledger with a row and an open transaction
C23_Witness ==
    /\ created.name = <<"a", " ", "b">>
    /\ \E f \in files : f.stem = created.stem /\ FileName(f) = ClaimedStem(created.name, created.now) \o <<".", "s", "q", "l">>
    /\ Cardinality(files) = 2
    /\ ledger # {}
    /\ openTx # {}

----------------------------------------------------------------------------
(* the rows of the ledger during a call *)

\* C24: a call moves the ledger in one direction and never updates a row:
\* every step of a migrate_up call leaves the rows there were and can only add
\* rows, every step of a migrate_down call can only take rows away, any other
\* call leaves the rows alone, and a row that is there before and after a
\* step is the same row (same version, same name), also when the file of its
\* version has been renamed since.
C24_OneDirection ==
    [][/\ \A r \in Runners :
            /\ run[r].cmd = "up" => ledger \subseteq ledger'
            /\ run[r].cmd = "down" => ledger' \subseteq ledger
            /\ run[r].cmd \notin {"up", "down"} => ledger' = ledger
       /\ \A x \in ledger, y \in ledger' : x.version = y.version => x = y]_vars

\* a migrate_up that read the ledger as empty has tried to insert the row of
\* a renamed file whose version has a row under the old name
C24_Witness ==
    \E r \in Runners :
        /\ Ended(r, "up")
        /\ "insert" \in run[r].failed
        /\ \E m \in dir, x \in ledger : m.version = x.version /\ m.name # x.name
        /\ Cardinality(ledger) = 2

\* a migrate_down has taken one row away and left the other
C24_WitnessDown ==
    \E r \in Runners :
        /\ Ended(r, "down")
        /\ Len(run[r].done) = 1
        /\ Cardinality(ledger) = 1
        /\ Cardinality(run[r].ledger0) = 2

----------------------------------------------------------------------------
(* the order of application over the whole history *)

\* C25 as claimed: over any sequence of migrate_up calls, with files added to
\* the directory between calls, a migration whose row is committed has a
\* version greater than every version the ledger holds at that moment.
C25_AscendingHistory_AsClaimed ==
    [][\A y \in ledger' \ ledger :
          \A x \in ledger : StrLess(x.version, y.version)]_vars

----------------------------------------------------------------------------
(* the statements inside one transaction *)

\* the statement before the i-th one a command sent
Before(log, i) == IF i > 1 THEN log[i - 1] ELSE Stmt("none", <<>>)

\* C26: inside the transaction of one migration the statements go out in a
\* fixed order and none is sent twice: up_sql (down_sql) is the first
\* statement after BEGIN, the INSERT (DELETE) is sent only directly after the
\* up_sql (down_sql) of the same version, which has succeeded by then, the
\* commit only after the INSERT (DELETE); and one command sends the up_sql or
\* down_sql of a version at most once.
C26_StatementOrder ==
    \A r \in Runners :
        LET log == run[r].log
        IN  /\ \A i \in 1..Len(log) :
                LET v == log[i].version
                IN  /\ log[i].stmt \in {"up_sql", "down_sql"} =>
                            Before(log, i) = Stmt("begin", v)
                    /\ log[i].stmt = "insert" => Before(log, i) = Stmt("up_sql", v)
                    /\ log[i].stmt = "delete" => Before(log, i) = Stmt("down_sql", v)
                    /\ log[i].stmt = "commit" =>
                            Before(log, i) \in {Stmt("insert", v), Stmt("delete", v)}
                    /\ log[i].stmt \in {"up_sql", "insert"} => run[r].cmd = "up"
                    /\ log[i].stmt \in {"down_sql", "delete"} => run[r].cmd = "down"
            /\ \A i, j \in 1..Len(log) :
                (i # j /\ log[i].stmt \in {"up_sql", "down_sql"}) => log[i] # log[j]
            /\ run[r].pc \in {"insert", "commit_up", "delete", "commit_down"} =>
                    CurrentTx(r).sql
            /\ \A t \in TxOf(r) : t.row => t.sql

\* a command that applied two migrations, each with its three statements
C26_Witness ==
    \E r \in Runners :
        /\ Ended(r, "up")
        /\ Len(run[r].done) = 2
        /\ Len(run[r].log) = 8
        /\ run[r].log[2].stmt = "up_sql"
        /\ run[r].log[3].stmt = "insert"
        /\ run[r].log[6].stmt = "up_sql"

----------------------------------------------------------------------------
(* the applied migrations are a prefix of the available ones *)

DirVersions == {m.version : m \in dir}

\* C27: with a directory that does not change, an empty ledger at the start
\* and one runner, whatever commands are called with whatever target and
\* wherever a statement, a ledger read or the process fails: every row of the
\* ledger belongs to a file, and no file is unapplied while a file of higher
\* version is applied.
C27_AppliedIsPrefix ==
    /\ RowVersions(ledger) \subseteq DirVersions
    /\ \A v1, v2 \in DirVersions :
          (StrLess(v1, v2) /\ v2 \in RowVersions(ledger)) => v1 \in RowVersions(ledger)

\* a migrate_down over three applied migrations stopped at the second one
C27_Witness ==
    \E r \in Runners :
        /\ Ended(r, "down")
        /\ run[r].outcome = "raised"
        /\ Len(run[r].done) = 1
        /\ Cardinality(dir) = 3
        /\ Cardinality(ledger) = 2

----------------------------------------------------------------------------
(* two orchestrators at the same time *)

\* C28: when two orchestrators run migrate_up at the same time against one
\* database, also when both have read the same applied list: in every
\* interleaving the up_sql of a version is committed at most once, together
\* with the one row of that version; no two open transactions both hold a row
\* of one version; and no version is committed by both commands.  The INSERT
\* of the second transaction waits for the first and is refused once that has
\* committed, and its up_sql is rolled back with it.
C28_OneCommitPerVersion ==
    /\ \A v \in Versions :
          /\ upsSinceDown[v] = (IF v \in RowVersions(ledger) THEN 1 ELSE 0)
          /\ Cardinality({x \in ledger : x.version = v}) <= 1
    /\ schema = RowVersions(ledger)
    /\ overRow = FALSE
    /\ \A t1, t2 \in openTx :
          (t1.row /\ t2.row /\ t1.version = t2.version) => t1 = t2
    /\ \A r1, r2 \in AllRunners :
          r1 # r2 => Elements(run[r1].done) \cap Elements(run[r2].done) = {}

\* both read the ledger as it was, empty; one committed the first migration,
\* the other ran its up_sql as well and was refused at the INSERT
C28_Witness ==
    \E r1, r2 \in AllRunners :
        /\ r1 # r2
        /\ run[r1].ledger0 = {} /\ run[r2].ledger0 = {}
        /\ run[r1].listed /\ run[r2].listed
        /\ "read" \notin run[r1].failed \cup run[r2].failed
        /\ run[r1].applied = <<>> /\ run[r2].applied = <<>>
        /\ run[r1].done # <<>>
        /\ run[r1].done[1] = VersionStr(1)
        /\ Ended(r2, "up")
        /\ run[r2].failed = {"insert"}
        /\ run[r2].log = <<Stmt("begin", VersionStr(1)), Stmt("up_sql", VersionStr(1)),
                           Stmt("insert", VersionStr(1))>>

----------------------------------------------------------------------------
(* what migrate_down leaves when it returns *)

\* C29 as claimed: whenever migrate_down(t) returns without raising, the
\* ledger holds no version greater than t, also when the ledger holds versions
\* whose file is gone from the directory and when the ledger read failed open.
C29_DownPostcondition_AsClaimed ==
    \A r \in Runners :
        (Ended(r, "down") /\ run[r].outcome = "ok") =>
            \A x \in ledger : ~StrLess(run[r].target.str, x.version)

\* what the code gives: the postcondition holds when the read of the call
\* succeeded and every row above t has its file in the directory
C29_DownPostcondition_ReadOkFilesPresent ==
    \A r \in Runners :
        (/\ Ended(r, "down")
         /\ run[r].outcome = "ok"
         /\ "read" \notin run[r].failed
         /\ \A x \in run[r].ledger0 :
               StrLess(run[r].target.str, x.version) => x.version \in AvailableVersions(r)) =>
            \A x \in ledger : ~StrLess(run[r].target.str, x.version)

----------------------------------------------------------------------------
(* the pool is made once *)

\* the call of task t ends in this step
CallEnds(t, call) ==
    /\ poolMgr.task[t].call = call
    /\ poolMgr.task[t].pc # "idle"
    /\ poolMgr'.task[t].pc = "idle"

\* since the last step of a close(): the callers of get_connection went on
\* with the one pool that self._pool holds, and nobody with None
SamePool(m) ==
    /\ m.used \subseteq {m.pool} \ {0}
    /\ \A t \in Tasks : m.task[t].pc \in {"acquire", "connected"} => m.task[t].uses # 0

\* a get_connection() that finds no pool makes one: it goes into initialize(),
\* and a step that sets self._pool sets it to a pool that was never there before
NewPoolAfterNone ==
    /\ \A t \in Tasks :
          (/\ poolMgr.pool = 0
           /\ poolMgr.task[t].pc = "idle"
           /\ poolMgr'.task[t] # poolMgr.task[t]
           /\ poolMgr'.task[t].call = "get_connection") =>
              poolMgr'.task[t].pc \in {"create_pool", "wait_lock"}
    /\ (poolMgr.pool = 0 /\ poolMgr'.pool # 0) => poolMgr'.pool = poolMgr.lastId + 1

\* C30 as claimed: for any interleaving of initialize() and get_connection()
\* calls with no close() in between, create_pool is called once and every
\* caller uses that pool; after a close() call the pool reference is None and
\* the next get_connection() creates a new pool.
C30_CreatedOnce_AsClaimed ==
    [][/\ poolMgr'.calls <= 1
       /\ SamePool(poolMgr')
       /\ \A t \in Tasks : CallEnds(t, "close") => poolMgr'.pool = 0
       /\ NewPoolAfterNone]_vars

\* C30, what the code gives: with no step of a close() in between, create_pool
\* returns a pool at most once, it is called again only after a call of it
\* raised (never while another call of it is in flight), and every caller of
\* get_connection goes on with that one pool; after a close() that returned
\* the pool reference is None, and the next get_connection() calls create_pool,
\* whose pool is a new one.
C30_CreatedOnce ==
    [][/\ poolMgr'.made <= 1
       /\ poolMgr'.calls <= poolMgr'.fails + 1
       /\ Cardinality({t \in Tasks : poolMgr'.task[t].pc = "create_pool"}) <= 1
       /\ \A t \in Tasks :
            poolMgr'.task[t].pc \in {"create_pool", "pool_close"} => poolMgr'.lock = t
       /\ poolMgr'.made = 1 => poolMgr'.pool = poolMgr'.lastId
       /\ SamePool(poolMgr')
       /\ \A t \in Tasks :
            (CallEnds(t, "close") /\ poolMgr'.task[t].outcome = "ok") => poolMgr'.pool = 0
       /\ NewPoolAfterNone]_vars

\* after a close, two get_connection calls that both found no pool hold
\* connections of the second pool, which was made by one call of create_pool
C30_Witness ==
    /\ poolMgr.lastId = 2
    /\ poolMgr.pool = 2
    /\ poolMgr.calls = 1
    /\ poolMgr.made = 1
    /\ \A t \in Tasks :
          /\ poolMgr.task[t].call = "get_connection"
          /\ poolMgr.task[t].pc = "connected"
          /\ poolMgr.task[t].uses = 2

====
